---------------------------- MODULE Spec2Model ----------------------------
(***************************************************************************)
(* Volunteer engagement and retention pipeline of                          *)
(* src/volunteer_activity.py, as a state machine.                          *)
(*                                                                         *)
(* Representation.                                                         *)
(*  - A text cell is a sequence of one-character strings; the missing cell *)
(*    (pandas NaN) of a text column is the sequence NaNText.               *)
(*  - A volunteer id, a category, a subcategory and a cleaned status are   *)
(*    TLA+ strings; the missing cell is the string NaN.                    *)
(*  - Hours are integers (whole hours).  A raw hours cell is a record      *)
(*    [null, val]; a quotient of two integers is kept as [kind, num, den]. *)
(*  - A table is a sequence of rows together with the set of its columns.  *)
(*  - A timestamp is [nat, year, month, day, hour, minute]; nat marks NaT. *)
(***************************************************************************)
EXTENDS Integers, Sequences, FiniteSets, TLC

VARIABLES
    pc,              \* position of main(): the next call it makes
    err,             \* the exception that ended the run, or "none"
    hoursCsv,        \* file HOURS_FILE: Missing, or [cols, rows]
    volCsv,          \* file VOLUNTEER_FILE: Missing, or [cols, rows]
    geoEnv,          \* [gpd: geopandas imported, shp: Missing or the features]
    df_hours,        \* result of load_and_clean_hours
    df_merged,       \* result of merge_volunteer_data
    yearly_engagement,
    top20,
    retention_6mo,
    category_totals,
    category_yearly,
    growth_explainer,
    season_avg,
    month_avg,
    fsa_gdf,         \* result of mapping_stopped_by_fsa, or NoneValue
    outputFile       \* file OUTPUT_FILE: Missing, or the sheets written

vars == << pc, err, hoursCsv, volCsv, geoEnv, df_hours, df_merged,
           yearly_engagement, top20, retention_6mo, category_totals,
           category_yearly, growth_explainer, season_avg, month_avg,
           fsa_gdf, outputFile >>

-----------------------------------------------------------------------------
(* Generic helpers *)

NaN == "NaN"
NaNText == << "NaN" >>
Missing == [exists |-> FALSE]

Range(s) == { s[i] : i \in 1..Len(s) }

RECURSIVE SumOver(_, _)
SumOver(S, f) ==
    IF S = {} THEN 0
    ELSE LET x == CHOOSE y \in S : TRUE
         IN  f[x] + SumOver(S \ {x}, f)

RECURSIVE SumSeq(_)
SumSeq(s) == IF s = << >> THEN 0 ELSE Head(s) + SumSeq(Tail(s))

MinOf(S) == CHOOSE x \in S : \A y \in S : x <= y
MaxOf(S) == CHOOSE x \in S : \A y \in S : x >= y

\* ceil(a / b) for b > 0
CeilDiv(a, b) == -((-a) \div b)

-----------------------------------------------------------------------------
(* Text helpers: Python str methods on sequences of characters *)

UpperChars == << "A","B","C","D","E","F","G","H","I","J","K","L","M",
                 "N","O","P","Q","R","S","T","U","V","W","X","Y","Z" >>
LowerChars == << "a","b","c","d","e","f","g","h","i","j","k","l","m",
                 "n","o","p","q","r","s","t","u","v","w","x","y","z" >>

LowerChar(c) ==
    IF \E i \in 1..Len(UpperChars) : UpperChars[i] = c
    THEN LowerChars[CHOOSE i \in 1..Len(UpperChars) : UpperChars[i] = c]
    ELSE c

UpperChar(c) ==
    IF \E i \in 1..Len(LowerChars) : LowerChars[i] = c
    THEN UpperChars[CHOOSE i \in 1..Len(LowerChars) : LowerChars[i] = c]
    ELSE c

IsLetter(c) == \E i \in 1..Len(LowerChars) : LowerChars[i] = c \/ UpperChars[i] = c

\* str.lower, str.upper
Lower(s) == [i \in 1..Len(s) |-> LowerChar(s[i])]
Upper(s) == [i \in 1..Len(s) |-> UpperChar(s[i])]

\* str.strip
Strip(s) ==
    IF \A i \in 1..Len(s) : s[i] = " " THEN << >>
    ELSE LET a == MinOf({ i \in 1..Len(s) : s[i] # " " })
             b == MaxOf({ i \in 1..Len(s) : s[i] # " " })
         IN  SubSeq(s, a, b)

\* sub in s
OccursAt(sub, s, i) ==
    /\ i >= 1
    /\ i + Len(sub) - 1 <= Len(s)
    /\ SubSeq(s, i, i + Len(sub) - 1) = sub

Contains(sub, s) == \E i \in 1..(Len(s) + 1) : OccursAt(sub, s, i)

\* str.startswith, str.endswith
StartsWith(s, p) == OccursAt(p, s, 1)
EndsWith(s, p) == OccursAt(p, s, Len(s) - Len(p) + 1)

\* str.replace(old, ""): every non-overlapping occurrence, left to right
RECURSIVE RemoveAll(_, _)
RemoveAll(s, old) ==
    IF s = << >> THEN << >>
    ELSE IF OccursAt(old, s, 1)
         THEN RemoveAll(SubSeq(s, Len(old) + 1, Len(s)), old)
         ELSE << Head(s) >> \o RemoveAll(Tail(s), old)

\* str.replace(" ", "")
RemoveSpaces(s) == SelectSeq(s, LAMBDA c : c # " ")

\* s.split(",")[0]
BeforeComma(s) ==
    IF \E i \in 1..Len(s) : s[i] = ","
    THEN SubSeq(s, 1, MinOf({ i \in 1..Len(s) : s[i] = "," }) - 1)
    ELSE s

\* str.title: a letter after a non-letter is upper-cased, any other letter
\* lower-cased
Title(s) ==
    [i \in 1..Len(s) |->
        IF i = 1 \/ ~IsLetter(s[i - 1]) THEN UpperChar(s[i]) ELSE LowerChar(s[i])]

-----------------------------------------------------------------------------
(* Cleaning helpers *)

Mississauga == << "M","i","s","s","i","s","s","a","u","g","a" >>

CITY_CANONICAL_MAP ==
    { << << "m","i","s","s","i","s","s","a","u","g","a" >>, Mississauga >>,
      << << "m","i","s","s","i","s","a","u","g","a" >>, Mississauga >>,
      << << "m","i","s","s","i","s","s","a","u","a","g","a" >>, Mississauga >>,
      << << "m","i","s","s","i","s","s","o","u","g","a" >>, Mississauga >>,
      << << "o","a","k","v","i","l","l","e" >>,
         << "O","a","k","v","i","l","l","e" >> >>,
      << << "t","o","r","o","n","t","o" >>,
         << "T","o","r","o","n","t","o" >> >>,
      << << "b","r","a","m","p","t","o","n" >>,
         << "B","r","a","m","p","t","o","n" >> >>,
      << << "b","u","r","l","i","n","g","t","o","n" >>,
         << "B","u","r","l","i","n","g","t","o","n" >> >>,
      << << "h","a","m","i","l","t","o","n" >>,
         << "H","a","m","i","l","t","o","n" >> >>,
      << << "v","a","u","g","h","a","n" >>,
         << "V","a","u","g","h","a","n" >> >>,
      << << "r","i","c","h","m","o","n","d"," ","h","i","l","l" >>,
         << "R","i","c","h","m","o","n","d"," ","H","i","l","l" >> >> }

CitySuffixes ==
    << << " ","o","n" >>,
       << " ","a","b" >>,
       << " ","b","c" >>,
       << " ","c","a","n" >>,
       << " ","c","a","n","a","d","a" >>,
       << " ","o","n","t","a","r","i","o" >> >>

\* the loop of clean_city over the suffixes, from suffix number k on
RECURSIVE StripSuffixes(_, _)
StripSuffixes(s, k) ==
    IF k > Len(CitySuffixes) THEN s
    ELSE IF EndsWith(s, CitySuffixes[k])
         THEN StripSuffixes(Strip(RemoveAll(s, CitySuffixes[k])), k + 1)
         ELSE StripSuffixes(s, k + 1)

clean_city(city) ==
    IF city = NaNText THEN NaNText
    ELSE LET s0 == Lower(Strip(city))
             s1 == IF Contains(<< "," >>, s0) THEN Strip(BeforeComma(s0)) ELSE s0
             s2 == StripSuffixes(s1, 1)
         IN  IF StartsWith(s2, << "m","i","s" >>) THEN Mississauga
             ELSE IF \E e \in CITY_CANONICAL_MAP : e[1] = s2
                  THEN (CHOOSE e \in CITY_CANONICAL_MAP : e[1] = s2)[2]
                  ELSE Title(s2)

clean_volunteer_status(status) ==
    IF status = NaNText THEN "Unknown"
    ELSE LET s == Lower(Strip(status))
         IN  IF Contains(<< "a","p","p","l","i","c","a","n","t" >>, s)
                  THEN "Applicant"
             ELSE IF Contains(<< "p","r","o","c","e","s","s" >>, s)
                  THEN "In Process"
             ELSE IF Contains(<< "a","c","c","e","p","t","e","d" >>, s)
                  THEN "Accepted"
             ELSE IF Contains(<< "i","n","a","c","t","i","v","e" >>, s)
                  THEN "Inactive"
             ELSE IF Contains(<< "a","r","c","h","i","v","e","d" >>, s)
                  THEN "Archived"
             ELSE "Other"

extract_fsa(postal) ==
    IF postal = NaNText THEN NaNText
    ELSE LET s == Upper(RemoveSpaces(postal))
         IN  IF Len(s) >= 3 THEN SubSeq(s, 1, 3) ELSE NaNText

LanguageSeparators ==
    { << "," >>, << ";" >>, << " ","a","n","d"," " >>, << "/" >> }

L_Multilingual == << "M","u","l","t","i","l","i","n","g","u","a","l" >>
L_EnglishOnly == << "E","n","g","l","i","s","h"," ","o","n","l","y" >>
L_OtherUnknown == << "O","t","h","e","r","/","U","n","k","n","o","w","n" >>

classify_language(text) ==
    IF Strip(text) = << >> THEN L_OtherUnknown
    ELSE LET t == Lower(text)
             has_english == Contains(<< "e","n","g","l","i","s","h" >>, t)
             is_multi == \E sep \in LanguageSeparators : Contains(sep, t)
         IN  IF has_english /\ is_multi THEN L_Multilingual
             ELSE IF has_english THEN L_EnglishOnly
             ELSE L_OtherUnknown

-----------------------------------------------------------------------------
(* Calendar: what pd.to_datetime and the .dt accessors compute *)

MONTH_ORDER ==
    << "January", "February", "March", "April", "May", "June", "July",
       "August", "September", "October", "November", "December" >>

\* SEASONS, keyed by quarter
SEASONS == << "Winter", "Spring", "Summer", "Autumn" >>

IsLeap(y) == (y % 4 = 0 /\ y % 100 # 0) \/ y % 400 = 0

DaysInMonth(y, m) ==
    IF m = 2 THEN (IF IsLeap(y) THEN 29 ELSE 28)
    ELSE IF m \in {4, 6, 9, 11} THEN 30 ELSE 31

\* days from January 1 of year y to the date (0 for January 1)
DayOfYear(y, m, d) ==
    SumOver(1..(m - 1), [k \in 1..12 |-> DaysInMonth(y, k)]) + (d - 1)

NaT == [nat |-> TRUE, year |-> 0, month |-> 0, day |-> 0, hour |-> 0, minute |-> 0]

\* pd.to_datetime(text, format="%d/%m/%Y %I:%M:%S %p", errors="coerce").
\* A raw date cell is [fmt, day, month, year, hour, minute, pm]: fmt is "dmy12"
\* for a text laid out as the format asks, anything else for a text that is
\* not (an empty cell, another layout); seconds are always 00.
ParseDate(raw) ==
    IF /\ raw.fmt = "dmy12"
       /\ raw.month \in 1..12
       /\ raw.day \in 1..DaysInMonth(raw.year, raw.month)
       /\ raw.hour \in 1..12
       /\ raw.minute \in 0..59
    THEN [nat |-> FALSE, year |-> raw.year, month |-> raw.month, day |-> raw.day,
          hour |-> (raw.hour % 12) + (IF raw.pm THEN 12 ELSE 0),
          minute |-> raw.minute]
    ELSE NaT

\* minutes from January 1, 00:00 of the timestamp's own year
MinuteOfYear(ts) ==
    (DayOfYear(ts.year, ts.month, ts.day) * 24 + ts.hour) * 60 + ts.minute

Quarter(ts) == ((ts.month - 1) \div 3) + 1

-----------------------------------------------------------------------------
(* Load and clean *)

HoursRequiredColumns ==
    { "DateVolunteered", "FinalCategory", "HoursWorked", "EventSubcategory" }

YearExcluded == 2016
HoursCap == 16

\* lines 133-145 and the rename: one parsed row with its derived fields
DeriveRow(raw) ==
    LET ts == ParseDate(raw.DateVolunteered)
    IN  [ id |-> raw.DatabaseUserId,
          DateVolunteered |-> ts,
          Year |-> ts.year,
          Month |-> IF ts.nat THEN NaN ELSE MONTH_ORDER[ts.month],
          Season |-> IF ts.nat THEN NaN ELSE SEASONS[Quarter(ts)],
          Category |-> raw.FinalCategory,
          SubCategory |-> raw.EventSubcategory,
          HoursCell |-> raw.HoursWorked ]

\* line 156
ReplaceCategory(c) ==
    IF c = "Market/Ware house Operation" THEN "Market/Warehouse" ELSE c

\* KeepRow with the hours filter written as Hours < 16
KeepRowBelowCap(r) ==
    /\ ~r.DateVolunteered.nat
    /\ r.Year # YearExcluded
    /\ ~r.HoursCell.null /\ r.HoursCell.val < HoursCap
    /\ r.SubCategory # "Holiday & Seasonal Meal Programs"

\* lines 138, 157-159: the row filters; a comparison with a missing cell is
\* False for <= and True for !=
KeepRow(r) ==
    /\ ~r.DateVolunteered.nat
    /\ r.Year # YearExcluded
    /\ ~r.HoursCell.null /\ r.HoursCell.val <= HoursCap
    /\ r.SubCategory # "Holiday & Seasonal Meal Programs"

CleanRow(r) ==
    [ id |-> r.id,
      DateVolunteered |-> r.DateVolunteered,
      Year |-> r.Year,
      Month |-> r.Month,
      Season |-> r.Season,
      Category |-> ReplaceCategory(r.Category),
      SubCategory |-> r.SubCategory,
      Hours |-> r.HoursCell.val ]

CleanRows(rawRows) ==
    LET derived == [i \in 1..Len(rawRows) |-> DeriveRow(rawRows[i])]
        kept == SelectSeq(derived, KeepRow)
    IN  [i \in 1..Len(kept) |-> CleanRow(kept[i])]

\* the columns of the cleaned table (line 162-163); DayName and Week are
\* derived and kept by the code too, and read by no operation
CleanColumns(cols) ==
    (IF "DatabaseUserId" \in cols THEN { "Volunteer ID" } ELSE {})
        \cup { "DateVolunteered", "Year", "Month", "Season", "Category",
               "SubCategory", "Hours" }

-----------------------------------------------------------------------------
(* Metrics: pure functions of the rows of the cleaned table *)

\* a quotient num / den of the float arithmetic: finite, or inf, or nan
Quot(num, den) ==
    IF den # 0 THEN [kind |-> "finite", num |-> num, den |-> den]
    ELSE IF num = 0 THEN [kind |-> "nan", num |-> 0, den |-> 1]
    ELSE [kind |-> "inf", num |-> num, den |-> 1]

Zero == [kind |-> "finite", num |-> 0, den |-> 1]

\* fillna(0) on one cell
FillNa(q) == IF q.kind = "nan" THEN Zero ELSE q

YearsIn(rows) == { r.Year : r \in Range(rows) }

\* the groups of groupby("Volunteer ID"): a missing key makes no group
IdsIn(rows) == { r.id : r \in Range(rows) } \ { NaN }

InYear(rows, yr) == SelectSeq(rows, LAMBDA r : r.Year = yr)

OfVolunteer(rows, v) == SelectSeq(rows, LAMBDA r : r.id = v)

HoursSum(rows) == SumSeq([i \in 1..Len(rows) |-> rows[i].Hours])

\* df[df["Category"] != "Training"]
NonTraining(rows) == SelectSeq(rows, LAMBDA r : r.Category # "Training")

\* groupby("Volunteer ID")["Hours"].sum()
TotalsByVolunteer(rows) ==
    [v \in IdsIn(rows) |-> HoursSum(OfVolunteer(rows, v))]

\* sort_values(ascending=False) of the per-volunteer totals: the values
RECURSIVE SortedDesc(_, _)
SortedDesc(totals, S) ==
    IF S = {} THEN << >>
    ELSE LET m == CHOOSE v \in S : \A w \in S : totals[v] >= totals[w]
         IN  << totals[m] >> \o SortedDesc(totals, S \ {m})

\* compute_yearly_engagement: count, sum, min and max of the per-volunteer
\* yearly totals (describe() also gives std and quartiles, not kept here)
compute_yearly_engagement(rows) ==
    LET yrs == { y \in YearsIn(rows) : IdsIn(InYear(rows, y)) # {} }
    IN  [ y \in yrs |->
            LET totals == TotalsByVolunteer(InYear(rows, y))
                vals == { totals[v] : v \in DOMAIN totals }
            IN  [ VolunteerCount |-> Cardinality(DOMAIN totals),
                  sum |-> SumOver(DOMAIN totals, totals),
                  mean |-> Quot(SumOver(DOMAIN totals, totals),
                                Cardinality(DOMAIN totals)),
                  min |-> MinOf(vals),
                  max |-> MaxOf(vals) ] ]

TopPercent == 20

\* TopN rounding the fifth down
TopNRoundedDown(n_vol) == (TopPercent * n_vol) \div 100

\* math.ceil(0.20 * n_vol); the double product rounds to the exact fifth for
\* every count a table can hold, so the ceiling is that of 20 n / 100
TopN(n_vol) == CeilDiv(TopPercent * n_vol, 100)

compute_top20_engagement(rows) ==
    LET yrs == { y \in YearsIn(rows) : IdsIn(InYear(rows, y)) # {} }
    IN  [ y \in yrs |->
            LET totals == TotalsByVolunteer(InYear(rows, y))
                sorted == SortedDesc(totals, DOMAIN totals)
                n_vol == Len(sorted)
                top_n == TopN(n_vol)
                top20s == SubSeq(sorted, 1, top_n)
                other80 == SubSeq(sorted, top_n + 1, n_vol)
            IN  [ TotalVolunteers |-> n_vol,
                  Top20Volunteers |-> top_n,
                  TotalHours |-> SumSeq(sorted),
                  Top20Hours |-> SumSeq(top20s),
                  Top20Share |-> Quot(SumSeq(top20s) * 100, SumSeq(sorted)),
                  MeanTop20 |-> Quot(SumSeq(top20s), Len(top20s)),
                  MeanOther80 |-> IF Len(other80) # 0
                                  THEN Quot(SumSeq(other80), Len(other80))
                                  ELSE Zero ] ]

threshold_days == 180
MinutesPerDay == 1440

\* groupby("Volunteer ID")["DateVolunteered"].max(), as minute of the year
LastShift(rows, v) ==
    MaxOf({ MinuteOfYear(r.DateVolunteered) : r \in Range(OfVolunteer(rows, v)) })

\* (year_end - last_shift).dt.days: whole days of the difference, rounded down
InactivityDays(yr, lastMinute) ==
    (DayOfYear(yr, 12, 31) * MinutesPerDay - lastMinute) \div MinutesPerDay

IsInactive(yr, lastMinute) == InactivityDays(yr, lastMinute) > threshold_days

\* lines 245-267: a row for every year of the frame, counted over the
\* volunteers with a shift of the frame in that year
retention_rows_of(df_nt) ==
    [ yr \in YearsIn(df_nt) |->
        LET df_y == InYear(df_nt, yr)
            vols == IdsIn(df_y)
            inactive == { v \in vols : IsInactive(yr, LastShift(df_y, v)) }
            total == Cardinality(vols)
        IN  [ TotalVolunteers |-> total,
              ActiveVolunteers |-> Cardinality(vols \ inactive),
              InactiveVolunteers |-> Cardinality(inactive),
              ActivePct |-> IF total # 0
                            THEN Quot(Cardinality(vols \ inactive) * 100, total)
                            ELSE Zero,
              InactivePct |-> IF total # 0
                              THEN Quot(Cardinality(inactive) * 100, total)
                              ELSE Zero ] ]

\* compute_retention_rolling_6mo keeping the Training records in the frame
compute_retention_with_training(rows) == retention_rows_of(rows)

compute_retention_rolling_6mo(rows) == retention_rows_of(NonTraining(rows))

\* the groups of groupby("Category"): a missing key makes no group
CategoriesIn(rows) == { r.Category : r \in Range(rows) } \ { NaN }

OfCategory(rows, c) == SelectSeq(rows, LAMBDA r : r.Category = c)

\* sort_values("TotalHours", ascending=False)
RECURSIVE SortByHoursDesc(_)
SortByHoursDesc(S) ==
    IF S = {} THEN << >>
    ELSE LET m == CHOOSE x \in S : \A y \in S : x.TotalHours >= y.TotalHours
         IN  << m >> \o SortByHoursDesc(S \ {m})

\* sort_values(["Year", "TotalHours"], ascending=[True, False])
RECURSIVE SortByYearThenHours(_)
SortByYearThenHours(S) ==
    IF S = {} THEN << >>
    ELSE LET m == CHOOSE x \in S : \A y \in S :
                      \/ x.Year < y.Year
                      \/ x.Year = y.Year /\ x.TotalHours >= y.TotalHours
         IN  << m >> \o SortByYearThenHours(S \ {m})

category_totals_of(rows) ==
    SortByHoursDesc({ [Category |-> c, TotalHours |-> HoursSum(OfCategory(rows, c))] :
                      c \in CategoriesIn(rows) })

category_yearly_of(rows) ==
    SortByYearThenHours(
        UNION { { [Year |-> y, Category |-> c,
                   TotalHours |-> HoursSum(OfCategory(InYear(rows, y), c))] :
                  c \in CategoriesIn(InYear(rows, y)) } : y \in YearsIn(rows) })

\* FirstYear taking the latest year a volunteer has records in
FirstYearAsLatest(df_nt, v) == MaxOf(YearsIn(OfVolunteer(df_nt, v)))

\* first_year = df_nt.groupby("Volunteer ID")["Year"].min()
FirstYear(df_nt, v) == MinOf(YearsIn(OfVolunteer(df_nt, v)))

\* lines 291-307 of compute_trends
growth_explainer_of(rows) ==
    LET df_nt == NonTraining(rows)
        active_by_year == [y \in YearsIn(df_nt) |-> Cardinality(IdsIn(InYear(df_nt, y)))]
        new_by_year ==
            [y \in { FirstYear(df_nt, v) : v \in IdsIn(df_nt) } |->
                Cardinality({ v \in IdsIn(df_nt) : FirstYear(df_nt, v) = y })]
        \* reindex(active_by_year.index, fill_value=0)
        aligned_new ==
            [y \in DOMAIN active_by_year |->
                IF y \in DOMAIN new_by_year THEN new_by_year[y] ELSE 0]
    IN  [ y \in DOMAIN active_by_year |->
            [ ActiveVolunteers |-> active_by_year[y],
              NewVolunteers |-> aligned_new[y],
              ReturningVolunteers |-> active_by_year[y] - aligned_new[y],
              PctNew |-> Quot(aligned_new[y] * 100, active_by_year[y]),
              PctReturning |->
                  Quot((active_by_year[y] - aligned_new[y]) * 100, active_by_year[y]) ] ]

\* unstack() puts the keys that occur, sorted, in the columns
SeasonsSorted == << "Autumn", "Spring", "Summer", "Winter" >>
MonthsSorted ==
    << "April", "August", "December", "February", "January", "July", "June",
       "March", "May", "November", "October", "September" >>

\* reindex(columns=...): the named columns in the order named, a cell of a
\* column the table did not have is missing
Reindex(tbl, columns) ==
    [ index |-> tbl.index,
      columns |-> columns,
      cell |-> [k \in tbl.index \X Range(columns) |->
                   IF k[2] \in Range(tbl.columns) THEN tbl.cell[k]
                   ELSE Quot(0, 0)] ]

FillNaTable(tbl) ==
    [ index |-> tbl.index,
      columns |-> tbl.columns,
      cell |-> [k \in DOMAIN tbl.cell |-> FillNa(tbl.cell[k])] ]

\* (hours.unstack(fill_value=0) / volunteers.unstack(fill_value=0)) over the
\* groups of (Year, key): total hours by distinct volunteers
AvgTable(rows, key, sortedKeys) ==
    LET present == { r[key] : r \in Range(rows) }
        columns == SelectSeq(sortedKeys, LAMBDA c : c \in present)
        group(y, c) == SelectSeq(rows, LAMBDA r : r.Year = y /\ r[key] = c)
    IN  [ index |-> YearsIn(rows),
          columns |-> columns,
          cell |-> [k \in YearsIn(rows) \X present |->
                       Quot(HoursSum(group(k[1], k[2])),
                            Cardinality(IdsIn(group(k[1], k[2]))))] ]

\* line 310-312
season_avg_of(rows) == FillNaTable(AvgTable(rows, "Season", SeasonsSorted))

\* line 315-317
month_avg_of(rows) ==
    FillNaTable(Reindex(AvgTable(rows, "Month", MonthsSorted), MONTH_ORDER))

-----------------------------------------------------------------------------
(* Profiles and the merge *)

\* the rename of lines 171-176
RenameVolunteerColumn(c) ==
    CASE c = "DatabaseUserId" -> "Volunteer ID"
      [] c = "CF - 2025 Update - Age Range (archived Nov 2025)" -> "Age Range"
      [] c = "CF - Skills & Experience - Languages spoken:" -> "Language"
      [] c = "YearsSinceVolunteerDateJoined" -> "YearsJoined"
      [] OTHER -> c

vol_cols ==
    { "Volunteer ID", "City", "PostalCode", "Province", "Country",
      "YearsJoined", "VolunteerStatus", "Age Range", "Language" }

\* line 189: the recognized columns that the file has
ProjectedColumns(cols) == { RenameVolunteerColumn(c) : c \in cols } \cap vol_cols

\* lines 191-193 on one row.  Province, Country, YearsJoined and Age Range are
\* copied as they are and read by nothing; their cells are not kept here.
\* Language is copied as it is: no line applies classify_language to it.
NormalizeProfile(raw) ==
    [ id |-> raw.DatabaseUserId,
      City |-> clean_city(raw.City),
      PostalCode |-> raw.PostalCode,
      VolunteerStatus |-> clean_volunteer_status(raw.VolunteerStatus),
      Language |-> raw.Language,
      FSA |-> extract_fsa(raw.PostalCode) ]

NormalizeProfiles(rawRows) ==
    [i \in 1..Len(rawRows) |-> NormalizeProfile(rawRows[i])]

\* the profile cells of a shift row that no profile matches
NullProfile ==
    [ City |-> NaNText, PostalCode |-> NaNText, VolunteerStatus |-> NaN,
      Language |-> NaNText, FSA |-> NaNText ]

JoinRow(h, p) ==
    [ id |-> h.id, DateVolunteered |-> h.DateVolunteered, Year |-> h.Year,
      Month |-> h.Month, Season |-> h.Season, Category |-> h.Category,
      SubCategory |-> h.SubCategory, Hours |-> h.Hours,
      City |-> p.City, PostalCode |-> p.PostalCode,
      VolunteerStatus |-> p.VolunteerStatus, Language |-> p.Language,
      FSA |-> p.FSA ]

\* the profile rows a shift row joins: equal keys, and a missing key joins a
\* missing key
MatchesOf(h, profiles) == SelectSeq(profiles, LAMBDA p : p.id = h.id)

\* df_hours.merge(df_vol, on="Volunteer ID", how="left"): the shift rows in
\* their order, each once per matching profile row, or once with no profile
RECURSIVE LeftMerge(_, _)
LeftMerge(hours, profiles) ==
    IF hours = << >> THEN << >>
    ELSE LET h == Head(hours)
             m == MatchesOf(h, profiles)
             joined == IF m = << >> THEN << JoinRow(h, NullProfile) >>
                       ELSE [j \in 1..Len(m) |-> JoinRow(h, m[j])]
         IN  joined \o LeftMerge(Tail(hours), profiles)

\* how merge_volunteer_data ends: the exception it raises, or "ok"
MergeOutcome(hours, vol) ==
    IF ~vol.exists THEN "FileNotFoundError"
    ELSE LET cols == ProjectedColumns(vol.cols)
         IN  IF "City" \notin cols THEN "KeyError"
             ELSE IF "VolunteerStatus" \notin cols THEN "KeyError"
             ELSE IF "PostalCode" \notin cols THEN "KeyError"
             ELSE IF "Volunteer ID" \notin cols \/ "Volunteer ID" \notin hours.cols
                  THEN "KeyError"
             ELSE "ok"

MergedColumns(hoursCols, volCols) ==
    hoursCols \cup ProjectedColumns(volCols) \cup { "FSA" }

-----------------------------------------------------------------------------
(* Stopped volunteers by area *)

\* drop_duplicates(subset=["Volunteer ID"]): the first row of each id
DropDuplicateIds(rows) ==
    LET keep == { i \in 1..Len(rows) : \A j \in 1..(i - 1) : rows[j].id # rows[i].id }
        RECURSIVE Pick(_)
        Pick(i) == IF i > Len(rows) THEN << >>
                   ELSE (IF i \in keep THEN << rows[i] >> ELSE << >>) \o Pick(i + 1)
    IN  Pick(1)

IsStopped(status) == status \in { "Inactive", "Archived" }

\* lines 329-345: one row per area code of the data
fsa_summary_of(merged) ==
    LET volunteer_status ==
            DropDuplicateIds(SelectSeq(merged, LAMBDA r : r.FSA # NaNText))
        OfArea(a) == SelectSeq(volunteer_status, LAMBDA r : r.FSA = a)
    IN  [ a \in { r.FSA : r \in Range(volunteer_status) } |->
            LET total == Cardinality(IdsIn(OfArea(a)))
                stopped == Len(SelectSeq(OfArea(a),
                                         LAMBDA r : IsStopped(r.VolunteerStatus)))
            IN  [ TotalVolunteers |-> total,
                  StoppedVolunteers |-> stopped,
                  StoppedPct |-> Quot(stopped * 100, total) ] ]

\* how mapping_stopped_by_fsa ends
GeoOutcome(env) ==
    IF ~env.gpd \/ ~env.shp.exists THEN "none"
    ELSE IF env.shp.attr \notin { "CFSAUID", "FSA" } THEN "KeyError"
    ELSE "ok"

\* lines 347-355: the features whose area code the data has, each with the
\* summary of its area code
fsa_gdf_of(merged, shp) ==
    LET summary == fsa_summary_of(merged)
        kept == SelectSeq([i \in 1..Len(shp.features) |->
                              [FSA |-> shp.features[i], geometry |-> i]],
                          LAMBDA f : f.FSA \in DOMAIN summary)
    IN  [ i \in 1..Len(kept) |->
            [ FSA |-> kept[i].FSA,
              geometry |-> kept[i].geometry,
              TotalVolunteers |-> summary[kept[i].FSA].TotalVolunteers,
              StoppedVolunteers |-> summary[kept[i].FSA].StoppedVolunteers,
              StoppedPct |-> FillNa(summary[kept[i].FSA].StoppedPct) ] ]

\* fsa_gdf[safe_cols]
SafeColumns(rows) ==
    [ i \in 1..Len(rows) |->
        [ FSA |-> rows[i].FSA,
          TotalVolunteers |-> rows[i].TotalVolunteers,
          StoppedVolunteers |-> rows[i].StoppedVolunteers,
          StoppedPct |-> rows[i].StoppedPct ] ]

-----------------------------------------------------------------------------
(* main(): one action per call, in the order of lines 391-412 *)

inputs == << hoursCsv, volCsv, geoEnv >>

metrics == << yearly_engagement, top20, retention_6mo, category_totals,
              category_yearly, growth_explainer, season_avg, month_avg >>

\* Raise with the workbook opened when main() starts: the writer closes on
\* the exception and saves the workbook as it is, without a sheet
RaiseSavingWorkbook(e) ==
    /\ pc' = "aborted"
    /\ err' = e
    /\ outputFile' = [exists |-> TRUE, sheets |-> << >>]
    /\ UNCHANGED << inputs, df_hours, df_merged, metrics, fsa_gdf >>

\* an exception leaves main(): nothing after the raising call runs
Raise(e) ==
    /\ pc' = "aborted"
    /\ err' = e
    /\ UNCHANGED << inputs, df_hours, df_merged, metrics, fsa_gdf, outputFile >>

\* how load_and_clean_hours ends: the exception it raises, or "ok"
LoadOutcome(csv) ==
    IF ~csv.exists THEN "FileNotFoundError"
    ELSE IF ~(HoursRequiredColumns \subseteq csv.cols) THEN "KeyError"
    ELSE "ok"

LoadAndCleanHours ==
    /\ pc = "load_hours"
    /\ IF LoadOutcome(hoursCsv) = "ok"
       THEN /\ df_hours' = [ cols |-> CleanColumns(hoursCsv.cols),
                             rows |-> CleanRows(hoursCsv.rows) ]
            /\ pc' = "merge"
            /\ UNCHANGED << err, inputs, df_merged, metrics, fsa_gdf, outputFile >>
       ELSE Raise(LoadOutcome(hoursCsv))

MergeVolunteerData ==
    /\ pc = "merge"
    /\ IF MergeOutcome(df_hours, volCsv) = "ok"
       THEN /\ df_merged' =
                   [ cols |-> MergedColumns(df_hours.cols, volCsv.cols),
                     rows |-> LeftMerge(df_hours.rows,
                                        NormalizeProfiles(volCsv.rows)) ]
            /\ pc' = "yearly"
            /\ UNCHANGED << err, inputs, df_hours, metrics, fsa_gdf, outputFile >>
       ELSE Raise(MergeOutcome(df_hours, volCsv))

ComputeYearlyEngagement ==
    /\ pc = "yearly"
    /\ yearly_engagement' = compute_yearly_engagement(df_hours.rows)
    /\ pc' = "top20"
    /\ UNCHANGED << err, inputs, df_hours, df_merged, top20, retention_6mo,
                    category_totals, category_yearly, growth_explainer,
                    season_avg, month_avg, fsa_gdf, outputFile >>

ComputeTop20Engagement ==
    /\ pc = "top20"
    /\ top20' = compute_top20_engagement(df_hours.rows)
    /\ pc' = "retention"
    /\ UNCHANGED << err, inputs, df_hours, df_merged, yearly_engagement,
                    retention_6mo, category_totals, category_yearly,
                    growth_explainer, season_avg, month_avg, fsa_gdf, outputFile >>

ComputeRetentionRolling6mo ==
    /\ pc = "retention"
    /\ retention_6mo' = compute_retention_rolling_6mo(df_hours.rows)
    /\ pc' = "category"
    /\ UNCHANGED << err, inputs, df_hours, df_merged, yearly_engagement, top20,
                    category_totals, category_yearly, growth_explainer,
                    season_avg, month_avg, fsa_gdf, outputFile >>

ComputeCategoryHours ==
    /\ pc = "category"
    /\ category_totals' = category_totals_of(df_hours.rows)
    /\ category_yearly' = category_yearly_of(df_hours.rows)
    /\ pc' = "trends"
    /\ UNCHANGED << err, inputs, df_hours, df_merged, yearly_engagement, top20,
                    retention_6mo, growth_explainer, season_avg, month_avg,
                    fsa_gdf, outputFile >>

ComputeTrends ==
    /\ pc = "trends"
    /\ growth_explainer' = growth_explainer_of(df_hours.rows)
    /\ season_avg' = season_avg_of(df_hours.rows)
    /\ month_avg' = month_avg_of(df_hours.rows)
    /\ pc' = "geo"
    /\ UNCHANGED << err, inputs, df_hours, df_merged, yearly_engagement, top20,
                    retention_6mo, category_totals, category_yearly, fsa_gdf,
                    outputFile >>

MappingStoppedByFsa ==
    /\ pc = "geo"
    /\ IF GeoOutcome(geoEnv) = "KeyError"
       THEN Raise("KeyError")
       ELSE /\ fsa_gdf' =
                   IF GeoOutcome(geoEnv) = "none"
                   THEN [none |-> TRUE, rows |-> << >>]
                   ELSE [none |-> FALSE,
                         rows |-> fsa_gdf_of(df_merged.rows, geoEnv.shp)]
            /\ pc' = "export"
            /\ UNCHANGED << err, inputs, df_hours, df_merged, metrics, outputFile >>

MetricSheets ==
    << [name |-> "Yearly Engagement", table |-> yearly_engagement],
       [name |-> "Top 20% Concentration", table |-> top20],
       [name |-> "Inactivity (Rolling 6mo)", table |-> retention_6mo],
       [name |-> "Category Summary", table |-> category_totals],
       [name |-> "Category Trend", table |-> category_yearly],
       [name |-> "New vs Returning", table |-> growth_explainer],
       [name |-> "Season Avg Hours", table |-> season_avg],
       [name |-> "Month Avg Hours", table |-> month_avg] >>

\* export_all: the workbook is built in memory and saved when the writer closes
ExportAll ==
    /\ pc = "export"
    /\ outputFile' =
           [ exists |-> TRUE,
             sheets |-> MetricSheets \o
                 (IF ~fsa_gdf.none
                  THEN << [name |-> "FSA Stopped Summary",
                           table |-> SafeColumns(fsa_gdf.rows)] >>
                  ELSE << >>) ]
    /\ pc' = "done"
    /\ UNCHANGED << err, inputs, df_hours, df_merged, metrics, fsa_gdf >>

Next ==
    \/ LoadAndCleanHours
    \/ MergeVolunteerData
    \/ ComputeYearlyEngagement
    \/ ComputeTop20Engagement
    \/ ComputeRetentionRolling6mo
    \/ ComputeCategoryHours
    \/ ComputeTrends
    \/ MappingStoppedByFsa
    \/ ExportAll

-----------------------------------------------------------------------------
(* Inputs: the files a run can find *)

MaxRows == 3
MaxRawRows == 2
MaxVolunteers == 6
MaxProfiles == 2
MaxFeatures == 2

\* the sequences over S of length at most n
SeqsUpTo(S, n) == UNION { [1..k -> S] : k \in 0..n }

VolunteerNames == << "v1", "v2", "v3", "v4", "v5", "v6", "v7", "v8", "v9" >>

AllHoursColumns ==
    { "DatabaseUserId", "DateVolunteered", "HoursWorked", "FinalCategory",
      "EventSubcategory", "Location" }

\* a date text "dd/mm/yyyy hh:mm:00 AM|PM"
DateText(d, m, y, h, mi, pm) ==
    [fmt |-> "dmy12", day |-> d, month |-> m, year |-> y, hour |-> h,
     minute |-> mi, pm |-> pm]

\* a date text of another layout, "yyyy-mm-dd hh:mm:00"
IsoText(d, m, y, h, mi) ==
    [fmt |-> "iso", day |-> d, month |-> m, year |-> y, hour |-> h,
     minute |-> mi, pm |-> FALSE]

EmptyDate ==
    [fmt |-> "empty", day |-> 0, month |-> 0, year |-> 0, hour |-> 0,
     minute |-> 0, pm |-> FALSE]

HoursOf(h) == [null |-> FALSE, val |-> h]
NoHours == [null |-> TRUE, val |-> 0]

Shift(id, date, hours, cat, sub) ==
    [ DatabaseUserId |-> id, DateVolunteered |-> date, HoursWorked |-> hours,
      FinalCategory |-> cat, EventSubcategory |-> sub ]

\* a plain shift: a Food Sort of h hours at 9 AM
Plain(id, d, m, y, h) ==
    Shift(id, DateText(d, m, y, 9, 0, FALSE), HoursOf(h), "Food Sort", "Sorting")

HoursFile(cols, rows) == [exists |-> TRUE, cols |-> cols, rows |-> rows]

HoursTables(rowSet, n) ==
    { HoursFile(AllHoursColumns, rows) : rows \in SeqsUpTo(rowSet, n) }

T_CityMissisauga == << " "," ","M","i","s","s","i","s","a","u","g","a",","," ","O","N" >>
T_CityOakville == << "o","a","k","v","i","l","l","e" >>
T_CityToronto == << "T","o","r","o","n","t","o"," ","O","N"," ","C","a","n","a","d","a" >>
T_PostalL5B == << "l","5","b"," ","2","c","9" >>
T_PostalM5V == << "M","5","V","3","L","9" >>
T_PostalShort == << "L","5" >>
T_StatusInactive == << "I","n","a","c","t","i","v","e" >>
T_StatusArchived == << "A","r","c","h","i","v","e","d"," ","-"," ","m","o","v","e","d" >>
T_StatusAccepted == << "A","c","c","e","p","t","e","d" >>
T_StatusApplicant == << "A","p","p","l","i","c","a","n","t"," ","-"," ","I","n"," ","P","r","o","c","e","s","s" >>
T_LangEnglish == << "E","n","g","l","i","s","h" >>
T_LangEnglishFrench == << "E","n","g","l","i","s","h",","," ","F","r","e","n","c","h" >>
T_LangEnglishUrdu == << "e","n","g","l","i","s","h","/","u","r","d","u" >>
T_LangFrench == << "F","r","e","n","c","h",";"," ","A","r","a","b","i","c" >>
T_LangEmpty == << >>
T_L5B == << "L","5","B" >>
T_M5V == << "M","5","V" >>
T_K1A == << "K","1","A" >>

AllVolunteerColumns ==
    { "DatabaseUserId", "City", "PostalCode", "Province", "Country",
      "YearsSinceVolunteerDateJoined", "VolunteerStatus",
      "CF - 2025 Update - Age Range (archived Nov 2025)",
      "CF - Skills & Experience - Languages spoken:", "Email" }

Profile(id, city, postal, status, language) ==
    [ DatabaseUserId |-> id, City |-> city, PostalCode |-> postal,
      VolunteerStatus |-> status, Language |-> language ]

VolunteerFile(cols, rows) == [exists |-> TRUE, cols |-> cols, rows |-> rows]

Boundary(attr, features) == [exists |-> TRUE, attr |-> attr, features |-> features]

GeoEnv(gpd, shp) == [gpd |-> gpd, shp |-> shp]

NoGeo == GeoEnv(FALSE, Missing)

BaseHours ==
    HoursFile(AllHoursColumns,
              << Plain("v1", 10, 1, 2023, 4), Plain("v1", 1, 6, 2023, 6),
                 Plain("v2", 15, 1, 2023, 3) >>)

BaseVolunteers ==
    VolunteerFile(AllVolunteerColumns,
                  << Profile("v1", T_CityMissisauga, T_PostalL5B, T_StatusInactive,
                             T_LangEnglishFrench),
                     Profile("v2", T_CityOakville, T_PostalM5V, T_StatusAccepted,
                             T_LangEnglish) >>)

BaseGeo == GeoEnv(TRUE, Boundary("CFSAUID", << T_L5B, T_M5V >>))

\* one run for every way a call of main() can end
BaselineInputs ==
    { << Missing, BaseVolunteers, NoGeo >>,
      << HoursFile(AllHoursColumns \ { "HoursWorked" }, BaseHours.rows),
         BaseVolunteers, NoGeo >>,
      << HoursFile(AllHoursColumns \ { "DatabaseUserId" }, BaseHours.rows),
         BaseVolunteers, NoGeo >>,
      << BaseHours, Missing, NoGeo >>,
      << BaseHours, VolunteerFile(AllVolunteerColumns \ { "City" },
                                  BaseVolunteers.rows), NoGeo >>,
      << BaseHours, BaseVolunteers, NoGeo >>,
      << BaseHours, BaseVolunteers, GeoEnv(TRUE, Missing) >>,
      << BaseHours, BaseVolunteers, BaseGeo >>,
      << BaseHours, BaseVolunteers,
         GeoEnv(TRUE, Boundary("PRUID", << T_L5B >>)) >> }

NotComputed == [none |-> TRUE]

\* the output file an earlier run left
StaleOutput ==
    [exists |-> TRUE, sheets |-> << [name |-> "Yearly Engagement", table |-> << >>] >>]

\* the state when main() starts, for the runs over the given files, with the
\* output file as one of outputs
InitWith(focus, outputs) ==
    /\ \E files \in BaselineInputs \cup focus :
           /\ hoursCsv = files[1]
           /\ volCsv = files[2]
           /\ geoEnv = files[3]
    /\ pc = "load_hours"
    /\ err = "none"
    /\ df_hours = NotComputed
    /\ df_merged = NotComputed
    /\ yearly_engagement = NotComputed
    /\ top20 = NotComputed
    /\ retention_6mo = NotComputed
    /\ category_totals = NotComputed
    /\ category_yearly = NotComputed
    /\ growth_explainer = NotComputed
    /\ season_avg = NotComputed
    /\ month_avg = NotComputed
    /\ fsa_gdf = [none |-> TRUE, rows |-> << >>]
    /\ outputFile \in outputs

-----------------------------------------------------------------------------
(* The pipeline run *)

PipelineShifts ==
    { Plain("v1", 10, 1, 2023, 4),
      Plain("v2", 3, 7, 2023, 6),
      Plain("v1", 20, 11, 2024, 17),
      Shift(NaN, DateText(31, 2, 2023, 9, 0, FALSE), HoursOf(2), "Training", "Sorting") }

PipelineGeo ==
    { NoGeo, BaseGeo, GeoEnv(FALSE, Boundary("FSA", << T_L5B >>)) }

PipelineInputs ==
    HoursTables(PipelineShifts, MaxRows) \X { BaseVolunteers } \X PipelineGeo

Init == InitWith(PipelineInputs, { Missing, StaleOutput })

Spec == Init /\ [][Next]_vars

\* the positions of main() after a given call has returned
AfterLoad ==
    { "merge", "yearly", "top20", "retention", "category", "trends", "geo",
      "export", "done" }
AfterMerge == AfterLoad \ { "merge" }
AfterTop20 == { "retention", "category", "trends", "geo", "export", "done" }
AfterRetention == { "category", "trends", "geo", "export", "done" }
AfterTrends == { "geo", "export", "done" }
AfterGeo == { "export", "done" }

-----------------------------------------------------------------------------
(* RollingRetention *)

Training(id, d, m, y) ==
    Shift(id, DateText(d, m, y, 9, 0, FALSE), HoursOf(2), "Training", "Orientation")

At(id, d, m, y, h, mi, pm) ==
    Shift(id, DateText(d, m, y, h, mi, pm), HoursOf(3), "Food Sort", "Sorting")

\* shifts around the 180-day line: July 4 is 180 days before December 31,
\* July 3 is 181 days before it, in 2023 and in the leap year 2024
RetentionShifts ==
    { At("v1", 3, 7, 2023, 12, 0, FALSE),
      At("v1", 3, 7, 2023, 10, 30, FALSE),
      At("v1", 4, 7, 2023, 12, 0, FALSE),
      At("v1", 2, 7, 2023, 11, 0, TRUE),
      At("v1", 3, 7, 2024, 12, 0, FALSE),
      At("v2", 3, 7, 2023, 12, 0, FALSE),
      At("v2", 31, 12, 2023, 9, 0, FALSE),
      At("v2", 4, 7, 2024, 1, 15, TRUE),
      At(NaN, 5, 3, 2023, 9, 0, FALSE),
      Training("v1", 20, 12, 2023),
      Training("v2", 1, 2, 2024) }

RetentionInputs ==
    HoursTables(RetentionShifts, MaxRows) \X { BaseVolunteers } \X { NoGeo }

InitRetention == InitWith(RetentionInputs, { Missing })

SpecRetention == InitRetention /\ [][Next]_vars

\* the calendar days from the date of the volunteer's latest non-Training
\* shift of the year to December 31 of that year
CalendarDaysToYearEnd(rows, yr, v) ==
    DayOfYear(yr, 12, 31)
    - MaxOf({ DayOfYear(r.Year, r.DateVolunteered.month, r.DateVolunteered.day) :
              r \in Range(OfVolunteer(InYear(NonTraining(rows), yr), v)) })

\* C1: in every year row of the retention table, the inactive volunteers are
\* exactly those whose latest non-Training shift of the year lies more than 180
\* calendar days before December 31, whatever its time of day; the others are
\* active, and active + inactive = total.
C1_RollingRetention ==
    pc \in AfterRetention =>
        \A yr \in YearsIn(NonTraining(df_hours.rows)) :
            LET vols == IdsIn(InYear(NonTraining(df_hours.rows), yr))
                late == { v \in vols :
                            CalendarDaysToYearEnd(df_hours.rows, yr, v) > 180 }
            IN  /\ yr \in DOMAIN retention_6mo
                /\ retention_6mo[yr].InactiveVolunteers = Cardinality(late)
                /\ retention_6mo[yr].ActiveVolunteers = Cardinality(vols \ late)
                /\ retention_6mo[yr].ActiveVolunteers
                       + retention_6mo[yr].InactiveVolunteers
                   = retention_6mo[yr].TotalVolunteers

-----------------------------------------------------------------------------
(* GrowthDecomposition *)

GrowthShifts ==
    { Plain("v1", 10, 1, 2022, 4),
      Plain("v1", 5, 5, 2023, 2),
      Plain("v1", 9, 9, 2024, 3),
      Plain("v2", 15, 3, 2023, 3),
      Plain("v2", 1, 2, 2024, 1),
      Plain(NaN, 7, 7, 2024, 5),
      Plain(NaN, 8, 8, 2025, 5),
      Training("v2", 4, 4, 2022),
      Training("v1", 6, 6, 2021) }

GrowthInputs ==
    HoursTables(GrowthShifts, MaxRows) \X { BaseVolunteers } \X { NoGeo }

InitGrowth == InitWith(GrowthInputs, { Missing })

SpecGrowth == InitGrowth /\ [][Next]_vars

\* y is the least year in which volunteer v has a non-Training record
IsFirstActiveYear(rows, v, y) ==
    /\ \E r \in Range(NonTraining(rows)) : r.id = v /\ r.Year = y
    /\ \A r \in Range(NonTraining(rows)) : r.id = v => r.Year >= y

\* C2: the growth table has a row for every year of a non-Training record; in
\* every row new + returning = active and returning >= 0; the new count of a
\* year is the number of volunteers whose least non-Training year it is, so
\* the new counts add up to the number of distinct non-Training volunteers.
C2_GrowthDecomposition ==
    pc \in AfterTrends =>
        LET rows == df_hours.rows
            vols == IdsIn(NonTraining(rows))
        IN  /\ DOMAIN growth_explainer = YearsIn(NonTraining(rows))
            /\ \A y \in DOMAIN growth_explainer :
                   /\ growth_explainer[y].NewVolunteers
                          + growth_explainer[y].ReturningVolunteers
                      = growth_explainer[y].ActiveVolunteers
                   /\ growth_explainer[y].ReturningVolunteers >= 0
                   /\ growth_explainer[y].NewVolunteers
                      = Cardinality({ v \in vols : IsFirstActiveYear(rows, v, y) })
            /\ \A v \in vols :
                   Cardinality({ y \in DOMAIN growth_explainer :
                                   IsFirstActiveYear(rows, v, y) }) = 1
            /\ SumOver(DOMAIN growth_explainer,
                       [y \in DOMAIN growth_explainer |->
                           growth_explainer[y].NewVolunteers])
               = Cardinality(vols)

\* the growth table has a year with a new and a returning volunteer
C2_Witness ==
    /\ pc \in AfterTrends
    /\ \E y \in DOMAIN growth_explainer :
           /\ growth_explainer[y].NewVolunteers >= 1
           /\ growth_explainer[y].ReturningVolunteers >= 1

-----------------------------------------------------------------------------
(* Top20Concentration *)

Top20HourValues == { 2, 5 }

\* rows that follow the first shifts: none, a second shift of v1, a shift
\* with no volunteer id in a year of its own, a shift of zero hours
Top20Tails ==
    { << >>,
      << Plain("v1", 1, 6, 2023, 4) >>,
      << Plain(NaN, 2, 2, 2024, 3) >>,
      << Plain("v2", 3, 3, 2024, 0) >> }

\* one 2023 shift for each of the first k volunteers, then a tail
Top20Tables ==
    UNION { { HoursFile(AllHoursColumns,
                        [i \in 1..k |-> Plain(VolunteerNames[i], 10, 1, 2023, h[i])]
                            \o tail) :
              h \in [1..k -> Top20HourValues], tail \in Top20Tails } :
            k \in 0..MaxVolunteers }

Top20Inputs == Top20Tables \X { BaseVolunteers } \X { NoGeo }

InitTop20 == InitWith(Top20Inputs, { Missing })

SpecTop20 == InitTop20 /\ [][Next]_vars

\* the volunteers of a year and the hours each logged in it
VolunteersOfYear(rows, y) ==
    { r.id : r \in { q \in Range(rows) : q.Year = y /\ q.id # NaN } }

YearHours(rows, y, v) ==
    HoursSum(SelectSeq(rows, LAMBDA r : r.Year = y /\ r.id = v))

\* C3: the table has one row for every year with N >= 1 volunteers and none
\* for a year without volunteers; its top count is ceil(0.20 N); its top hours
\* are the hours of a segment of that many volunteers none of whom logged less
\* than a volunteer outside it; top and remainder hours add up to the total;
\* the mean of the remainder is 0 when the remainder is empty.
C3_Top20Concentration ==
    pc \in AfterTop20 =>
        LET rows == df_hours.rows
        IN  /\ DOMAIN top20 =
                   { y \in YearsIn(rows) : VolunteersOfYear(rows, y) # {} }
            /\ \A y \in DOMAIN top20 :
                   LET vols == VolunteersOfYear(rows, y)
                       N == Cardinality(vols)
                       hours == [v \in vols |-> YearHours(rows, y, v)]
                       row == top20[y]
                   IN  /\ row.TotalVolunteers = N
                       /\ 5 * row.Top20Volunteers >= N
                       /\ 5 * (row.Top20Volunteers - 1) < N
                       /\ row.TotalHours = SumOver(vols, hours)
                       /\ \E top \in SUBSET vols :
                              /\ Cardinality(top) = row.Top20Volunteers
                              /\ \A v \in top, w \in vols \ top : hours[v] >= hours[w]
                              /\ row.Top20Hours = SumOver(top, hours)
                              /\ row.Top20Hours + SumOver(vols \ top, hours)
                                 = row.TotalHours
                              /\ IF vols \ top = {}
                                 THEN row.MeanOther80 = Zero
                                 ELSE /\ row.MeanOther80.kind = "finite"
                                      /\ row.MeanOther80.num
                                             * Cardinality(vols \ top)
                                         = SumOver(vols \ top, hours)
                                             * row.MeanOther80.den

\* a year of six volunteers or more, whose top segment has two of them and
\* logged more than the mean share, beside a year that has no volunteer
C3_Witness ==
    /\ pc \in AfterTop20
    /\ \E y \in DOMAIN top20 :
           /\ top20[y].TotalVolunteers >= 6
           /\ top20[y].Top20Volunteers = 2
           /\ top20[y].Top20Hours * 3 > top20[y].TotalHours
    /\ \E y \in YearsIn(df_hours.rows) : y \notin DOMAIN top20

-----------------------------------------------------------------------------
(* RecordCleaner *)

Holiday == "Holiday & Seasonal Meal Programs"

CleanerShifts ==
    { Plain("v1", 10, 1, 2023, 4),
      Shift("v1", DateText(29, 2, 2024, 12, 0, FALSE), HoursOf(16),
            "Market/Ware house Operation", "Market"),
      Shift("v2", DateText(5, 5, 2023, 1, 0, TRUE), HoursOf(17), "Food Sort", "Sorting"),
      Shift("v2", DateText(5, 5, 2023, 1, 0, TRUE), NoHours, "Food Sort", "Sorting"),
      Plain("v1", 1, 1, 2016, 4),
      Plain("v2", 31, 12, 2015, 4),
      Plain("v1", 31, 2, 2023, 4),
      Shift("v1", DateText(10, 1, 2023, 13, 0, TRUE), HoursOf(4), "Food Sort", "Sorting"),
      Shift("v1", IsoText(10, 1, 2023, 9, 0), HoursOf(4), "Food Sort", "Sorting"),
      Shift("v2", EmptyDate, HoursOf(4), "Food Sort", "Sorting"),
      Shift("v2", DateText(24, 12, 2023, 9, 0, FALSE), HoursOf(5), "Events", Holiday),
      Shift("v2", DateText(7, 8, 2023, 9, 0, FALSE), HoursOf(0), NaN, NaN),
      Shift(NaN, DateText(1, 1, 2016, 9, 0, FALSE), HoursOf(20),
            "Market/Ware house Operation", Holiday) }

CleanerInputs ==
    HoursTables(CleanerShifts, MaxRawRows) \X { BaseVolunteers } \X { NoGeo }

InitCleaner == InitWith(CleanerInputs, { Missing })

SpecCleaner == InitCleaner /\ [][Next]_vars

\* the raw record's date text parses, and the record passes every filter the
\* claim lists
Survives(raw) ==
    /\ ~ParseDate(raw.DateVolunteered).nat
    /\ ~raw.HoursWorked.null /\ raw.HoursWorked.val <= 16
    /\ ParseDate(raw.DateVolunteered).year # 2016
    /\ raw.EventSubcategory # Holiday

\* C4: every cleaned record has a parsed date, hours <= 16, a year other than
\* 2016, a subcategory other than the holiday one and a category other than
\* the misspelled one; and the cleaned records are, in order, exactly the raw
\* records that parse and pass these filters.
C4_RecordCleaner ==
    pc \in AfterLoad =>
        LET raw == SelectSeq(hoursCsv.rows, Survives)
            out == df_hours.rows
        IN  /\ \A r \in Range(out) :
                   /\ ~r.DateVolunteered.nat
                   /\ r.Hours <= 16
                   /\ r.Year # 2016
                   /\ r.SubCategory # Holiday
                   /\ r.Category # "Market/Ware house Operation"
            /\ Len(out) = Len(raw)
            /\ \A i \in 1..Len(raw) :
                   /\ out[i].id = raw[i].DatabaseUserId
                   /\ out[i].DateVolunteered = ParseDate(raw[i].DateVolunteered)
                   /\ out[i].Hours = raw[i].HoursWorked.val
                   /\ out[i].SubCategory = raw[i].EventSubcategory
                   /\ out[i].Category \in
                          { raw[i].FinalCategory, "Market/Warehouse" }

\* a record of exactly 16 hours with the misspelled category is kept and
\* renamed while another record of the file is dropped
C4_Witness ==
    /\ pc \in AfterLoad
    /\ Len(df_hours.rows) < Len(hoursCsv.rows)
    /\ \E r \in Range(df_hours.rows) :
           r.Hours = 16 /\ r.Category = "Market/Warehouse"

-----------------------------------------------------------------------------
(* SeasonalMonthlyAverages *)

SeasonalShifts ==
    { Plain("v1", 10, 1, 2023, 4),
      Plain("v2", 15, 1, 2023, 3),
      Plain("v1", 2, 2, 2023, 2),
      Plain("v1", 3, 4, 2023, 5),
      Plain("v2", 25, 12, 2023, 1),
      Plain("v1", 5, 8, 2024, 6),
      Plain(NaN, 7, 7, 2023, 4),
      Plain(NaN, 8, 1, 2023, 2),
      Plain(NaN, 9, 9, 2024, 0) }

SeasonalInputs ==
    HoursTables(SeasonalShifts, MaxRows) \X { BaseVolunteers } \X { NoGeo }

InitSeasonal == InitWith(SeasonalInputs, { Missing })

SpecSeasonal == InitSeasonal /\ [][Next]_vars

\* the cleaned records of one (year, season) or (year, month) cell
CellRecords(rows, y, key, c) ==
    { i \in 1..Len(rows) : rows[i].Year = y /\ rows[i][key] = c }

CellVolunteers(rows, y, key, c) ==
    { rows[i].id : i \in CellRecords(rows, y, key, c) } \ { NaN }

CellHours(rows, y, key, c) ==
    SumOver(CellRecords(rows, y, key, c), [i \in 1..Len(rows) |-> rows[i].Hours])

\* every cell of the table is 0 when the cell has no volunteer, and total
\* hours by distinct volunteers otherwise
CellsAreAverages(tbl, rows, key) ==
    \A y \in tbl.index, c \in Range(tbl.columns) :
        LET n == Cardinality(CellVolunteers(rows, y, key, c))
            q == tbl.cell[<< y, c >>]
        IN  /\ q.kind = "finite"
            /\ IF n = 0 THEN q.num = 0
               ELSE q.num * n = CellHours(rows, y, key, c) * q.den

\* C5: in the seasonal and in the monthly table a cell without volunteers is
\* 0, never NaN or infinite, any other cell is total hours by distinct
\* volunteers, and the monthly columns are the twelve months from January to
\* December.
C5_SeasonalMonthlyAverages ==
    pc \in AfterTrends =>
        /\ CellsAreAverages(season_avg, df_hours.rows, "Season")
        /\ CellsAreAverages(month_avg, df_hours.rows, "Month")
        /\ month_avg.columns =
               << "January", "February", "March", "April", "May", "June", "July",
                  "August", "September", "October", "November", "December" >>

-----------------------------------------------------------------------------
(* ProfileNormalizer and Merger *)

ProfileHours ==
    HoursFile(AllHoursColumns,
              << Plain("v1", 10, 1, 2023, 4), Plain("v2", 15, 1, 2023, 3),
                 Plain("v1", 1, 6, 2023, 6), Plain("v3", 2, 6, 2023, 1),
                 Plain(NaN, 3, 6, 2023, 2) >>)

ProfileRows ==
    { Profile("v1", T_CityMissisauga, T_PostalL5B, T_StatusInactive,
              T_LangEnglishFrench),
      Profile("v1", T_CityOakville, T_PostalM5V, T_StatusAccepted, T_LangEnglish),
      Profile("v2", T_CityToronto, T_PostalShort, T_StatusArchived,
              T_LangEnglishUrdu),
      Profile("v2", NaNText, NaNText, NaNText, T_LangEmpty),
      Profile("v9", T_CityOakville, T_PostalM5V, T_StatusApplicant, T_LangFrench),
      Profile(NaN, T_CityOakville, T_PostalL5B, T_StatusInactive, NaNText) }

ProfileColumnSets ==
    { AllVolunteerColumns,
      AllVolunteerColumns \ { "City" },
      AllVolunteerColumns \ { "PostalCode" },
      AllVolunteerColumns \ { "VolunteerStatus" },
      AllVolunteerColumns \ { "Province", "Email",
                              "CF - Skills & Experience - Languages spoken:" },
      { "DatabaseUserId" } }

ProfileTables ==
    { VolunteerFile(cols, rows) :
        cols \in ProfileColumnSets, rows \in SeqsUpTo(ProfileRows, MaxProfiles) }

ProfileInputs == { ProfileHours } \X ProfileTables \X { NoGeo, BaseGeo }

InitProfiles == InitWith(ProfileInputs, { Missing })

SpecProfiles == InitProfiles /\ [][Next]_vars

\* main() has called merge_volunteer_data and the call raised
MergeRaised == pc = "aborted" /\ df_hours # NotComputed /\ df_merged = NotComputed

\* C6: for a profile file that has the volunteer id column and any of the
\* optional columns, normalization raises no error, and the result has exactly
\* the recognized columns the file has.
C6_ProfileNormalizer ==
    ( /\ volCsv.exists
      /\ "DatabaseUserId" \in volCsv.cols
      /\ hoursCsv.exists
      /\ "DatabaseUserId" \in hoursCsv.cols )
    => /\ ~MergeRaised
       /\ pc \in AfterMerge =>
              \A c \in volCsv.cols :
                  RenameVolunteerColumn(c) \in df_merged.cols
                      <=> RenameVolunteerColumn(c) \in
                              { "Volunteer ID", "City", "PostalCode", "Province",
                                "Country", "YearsJoined", "VolunteerStatus",
                                "Age Range", "Language" }

LanguageLabels == { L_Multilingual, L_EnglishOnly, L_OtherUnknown }

\* C8: after normalization every profile with a language carries one of the
\* three labels Multilingual, English only, Other/Unknown.
C8_LanguageClassified ==
    pc \in AfterMerge =>
        \A r \in Range(df_merged.rows) :
            ("Language" \in df_merged.cols /\ r.Language # NaNText)
                => r.Language \in LanguageLabels

\* the columns of a merged row that come from the shift record
ShiftPart(r) ==
    [ id |-> r.id, DateVolunteered |-> r.DateVolunteered, Year |-> r.Year,
      Month |-> r.Month, Season |-> r.Season, Category |-> r.Category,
      SubCategory |-> r.SubCategory, Hours |-> r.Hours ]

ProfilePart(r) ==
    [ City |-> r.City, PostalCode |-> r.PostalCode,
      VolunteerStatus |-> r.VolunteerStatus, Language |-> r.Language,
      FSA |-> r.FSA ]

\* C9: for any cleaned shift table and any profile table the merged table has
\* the cleaned shift records, each exactly once and in order, so as many rows
\* as the shift table; a record whose id has no profile has null profile
\* fields.
C9_Merger ==
    pc \in AfterMerge =>
        /\ Len(df_merged.rows) = Len(df_hours.rows)
        /\ \A i \in 1..Len(df_merged.rows) :
               /\ i <= Len(df_hours.rows) => ShiftPart(df_merged.rows[i]) = df_hours.rows[i]
               /\ (\A p \in Range(volCsv.rows) :
                       p.DatabaseUserId # df_merged.rows[i].id)
                      => ProfilePart(df_merged.rows[i]) = NullProfile

-----------------------------------------------------------------------------
(* The run as a whole *)

SheetNames(file) == [i \in 1..Len(file.sheets) |-> file.sheets[i].name]

MetricSheetNames ==
    << "Yearly Engagement", "Top 20% Concentration", "Inactivity (Rolling 6mo)",
       "Category Summary", "Category Trend", "New vs Returning",
       "Season Avg Hours", "Month Avg Hours" >>

\* an input of the run cannot be loaded: a file is missing or lacks a column
\* its loader reads
InputFails ==
    \/ LoadOutcome(hoursCsv) # "ok"
    \/ ~volCsv.exists
    \/ ~({ "DatabaseUserId", "City", "PostalCode", "VolunteerStatus" }
             \subseteq volCsv.cols)
    \/ "DatabaseUserId" \notin hoursCsv.cols

\* C7: until main() is done the output file is as the run found it, absent
\* or left by an earlier run; a run that an input error or any other exception
\* ends has left it so; the file a finished run leaves holds the eight metric
\* tables computed from the cleaned input, all of them written.
C7_AllOrNothing ==
    /\ pc # "done" => outputFile \in { Missing, StaleOutput }
    /\ InputFails => pc \in { "load_hours", "merge", "aborted" }
    /\ pc = "aborted" => err # "none"
    /\ pc = "done" =>
           LET rows == CleanRows(hoursCsv.rows)
               tables == [i \in 1..Len(outputFile.sheets) |->
                             outputFile.sheets[i].table]
           IN  /\ LoadOutcome(hoursCsv) = "ok"
               /\ MergeOutcome(df_hours, volCsv) = "ok"
               /\ df_hours.rows = rows
               /\ outputFile.exists
               /\ SubSeq(SheetNames(outputFile), 1, 8) = MetricSheetNames
               /\ Len(outputFile.sheets) = IF fsa_gdf.none THEN 8 ELSE 9
               /\ tables[1] = compute_yearly_engagement(rows)
               /\ tables[2] = compute_top20_engagement(rows)
               /\ tables[3] = compute_retention_rolling_6mo(rows)
               /\ tables[4] = category_totals_of(rows)
               /\ tables[5] = category_yearly_of(rows)
               /\ tables[6] = growth_explainer_of(rows)
               /\ tables[7] = season_avg_of(rows)
               /\ tables[8] = month_avg_of(rows)

\* a run is done with its sheets written over a table that kept some shift
C7_Witness ==
    /\ pc = "done"
    /\ outputFile.exists
    /\ Len(df_hours.rows) >= 2
    /\ Len(df_hours.rows) < Len(hoursCsv.rows)

-----------------------------------------------------------------------------
(* GeoAggregator *)

GeoProfiles ==
    { Profile("v1", T_CityMissisauga, T_PostalL5B, T_StatusInactive, T_LangEnglish),
      Profile("v2", T_CityOakville, T_PostalM5V, T_StatusAccepted, T_LangEnglish),
      Profile("v2", T_CityOakville, T_PostalL5B, T_StatusArchived, T_LangEnglish),
      Profile("v3", T_CityToronto, T_PostalShort, T_StatusInactive, T_LangEnglish),
      Profile("v3", T_CityToronto, T_PostalM5V, T_StatusArchived, T_LangEnglish) }

GeoBoundaries ==
    { Boundary(attr, features) :
        attr \in { "CFSAUID", "FSA" },
        features \in SeqsUpTo({ T_L5B, T_M5V, T_K1A }, MaxFeatures) }

GeoEnvs ==
    { GeoEnv(gpd, shp) : gpd \in BOOLEAN, shp \in { Missing } \cup GeoBoundaries }

GeoInputs ==
    { ProfileHours }
        \X { VolunteerFile(AllVolunteerColumns, rows) :
               rows \in SeqsUpTo(GeoProfiles, MaxProfiles) }
        \X GeoEnvs

InitGeo == InitWith(GeoInputs, { Missing })

SpecGeo == InitGeo /\ [][Next]_vars

GeoAvailable == geoEnv.gpd /\ geoEnv.shp.exists

\* the merged rows of volunteer v that carry an area code, in order
AreaRows(v) ==
    SelectSeq(df_merged.rows, LAMBDA r : r.id = v /\ r.FSA # NaNText)

VolunteersWithArea == { v \in IdsIn(df_merged.rows) : AreaRows(v) # << >> }

AreaOf(v) == AreaRows(v)[1].FSA
StatusOf(v) == AreaRows(v)[1].VolunteerStatus

\* C10: without the geospatial library or the boundary file the aggregator
\* returns no result and the run still completes with the eight metric sheets
\* and no area sheet; with them, every volunteer with an area code is counted
\* in exactly one row of the area sheet, a row's stopped count is the number of
\* its volunteers whose status is Inactive or Archived, 0 <= stopped <= total,
\* and the sheet has only the area code, total, stopped and percentage columns.
C10_GeoAggregator ==
    /\ (~GeoAvailable /\ pc \in AfterGeo) => fsa_gdf.none
    /\ (~GeoAvailable /\ pc = "aborted") => df_merged = NotComputed
    /\ (~GeoAvailable /\ pc = "done") => SheetNames(outputFile) = MetricSheetNames
    /\ (GeoAvailable /\ pc = "done") =>
           /\ Len(outputFile.sheets) = 9
           /\ LET sheet == outputFile.sheets[9].table
              IN  /\ \A v \in VolunteersWithArea :
                         Cardinality({ i \in 1..Len(sheet) :
                                         sheet[i].FSA = AreaOf(v) }) = 1
                  /\ \A i \in 1..Len(sheet) :
                         LET counted == { v \in VolunteersWithArea :
                                            AreaOf(v) = sheet[i].FSA }
                         IN  /\ DOMAIN sheet[i] =
                                    { "FSA", "TotalVolunteers",
                                      "StoppedVolunteers", "StoppedPct" }
                             /\ sheet[i].TotalVolunteers = Cardinality(counted)
                             /\ sheet[i].StoppedVolunteers =
                                    Cardinality({ v \in counted :
                                        StatusOf(v) \in { "Inactive", "Archived" } })
                             /\ 0 <= sheet[i].StoppedVolunteers
                             /\ sheet[i].StoppedVolunteers
                                    <= sheet[i].TotalVolunteers

-----------------------------------------------------------------------------
(* Consistency of the metrics computed from one cleaned table *)

\* C11: computed from the same cleaned table, the retention table and the
\* growth table have a row for exactly the same years, and in every such year
\* the retention table's Total Volunteers equals the growth table's
\* ActiveVolunteers, both the number of distinct volunteers with a non-Training
\* record of the year; the yearly engagement table and the top-20% table have
\* a row for the same years, with VolunteerCount equal to Total Volunteers.
C11_CrossMetricConsistency ==
    pc \in AfterTrends =>
        /\ DOMAIN retention_6mo = DOMAIN growth_explainer
        /\ \A y \in DOMAIN retention_6mo :
               /\ retention_6mo[y].TotalVolunteers
                      = growth_explainer[y].ActiveVolunteers
               /\ retention_6mo[y].TotalVolunteers
                      = Cardinality(IdsIn(InYear(NonTraining(df_hours.rows), y)))
        /\ DOMAIN yearly_engagement = DOMAIN top20
        /\ \A y \in DOMAIN yearly_engagement :
               yearly_engagement[y].VolunteerCount = top20[y].TotalVolunteers

\* a year in which a volunteer has Training records only, next to a volunteer
\* with a non-Training record: the two pairs of tables count differently
C11_Witness ==
    /\ pc \in AfterTrends
    /\ \E y \in DOMAIN retention_6mo \cap DOMAIN top20 :
           /\ retention_6mo[y].TotalVolunteers >= 1
           /\ top20[y].TotalVolunteers > retention_6mo[y].TotalVolunteers
    /\ \E y \in DOMAIN retention_6mo : retention_6mo[y].TotalVolunteers = 0

-----------------------------------------------------------------------------
(* City normalization applied to its own result *)

T_CityMilton == << "M","i","l","t","o","n"," ","O","N" >>
T_CityRichmondHill ==
    << "r","i","c","h","m","o","n","d"," ","H","I","L","L",","," ",
       "O","n","t","a","r","i","o",","," ","C","a","n","a","d","a" >>
T_CityNorthYork == << "n","o","r","t","h"," ","y","o","r","k"," " >>
T_CityOttawa ==
    << "O","t","t","a","w","a"," ","O","n","t","a","r","i","o"," ",
       "C","a","n","a","d","a" >>

CityTexts ==
    { T_CityMissisauga, T_CityOakville, T_CityToronto, T_CityMilton,
      T_CityRichmondHill, T_CityNorthYork, T_CityOttawa, NaNText }

CityProfiles ==
    { Profile(id, city, T_PostalL5B, T_StatusAccepted, T_LangEnglish) :
        id \in { "v1", "v2" }, city \in CityTexts }

CityInputs ==
    { ProfileHours }
        \X { VolunteerFile(AllVolunteerColumns, rows) :
               rows \in SeqsUpTo(CityProfiles, MaxProfiles) }
        \X { NoGeo }

InitCities == InitWith(CityInputs, { Missing })

SpecCities == InitCities /\ [][Next]_vars

\* C12: clean_city is idempotent: the city of every normalized profile that
\* has one is a text that clean_city leaves as it is, so one pass has removed
\* every trailing province or country suffix and secondary comma segment.
C12_CleanCityIdempotent ==
    pc \in AfterMerge =>
        \A r \in Range(df_merged.rows) :
            r.City # NaNText => clean_city(r.City) = r.City

=============================================================================
